---------------------------- MODULE Spec2Model ----------------------------
(***************************************************************************)
(* Model of src/src/tools.py: the KNX (ETS export) to Home Assistant       *)
(* converter.  A Python str is a sequence of one-character strings, a      *)
(* dict is the sequence of its items in insertion order, a TypedDict       *)
(* record is a function from the keys present to their values.             *)
(***************************************************************************)
EXTENDS Integers, Sequences, FiniteSets, TLC

(***************************************************************************)
(* Python str primitives used by the program.                              *)
(***************************************************************************)

\* None, distinct from every str (a str holds one-character items) and from
\* every tuple of two items.
None == <<"None">>

\* The characters of the model in ascending code point order.
CODEPOINTS ==
    << "\t", "\n", " ", "/",
       "0", "1", "2", "3", "4", "5", "6", "7", "8", "9",
       "A", "B", "C", "D", "E", "F", "G", "H", "I", "J", "K", "L", "M",
       "N", "O", "P", "Q", "R", "S", "T", "U", "V", "W", "X", "Y", "Z",
       "_",
       "a", "b", "c", "d", "e", "f", "g", "h", "i", "j", "k", "l", "m",
       "n", "o", "p", "q", "r", "s", "t", "u", "v", "w", "x", "y", "z" >>

ord(c) == CHOOSE i \in 1..Len(CODEPOINTS) : CODEPOINTS[i] = c

UPPERCASE == {"A", "B", "C", "D", "E", "F", "G", "H", "I", "J", "K", "L", "M",
              "N", "O", "P", "Q", "R", "S", "T", "U", "V", "W", "X", "Y", "Z"}

DIGITS == {"0", "1", "2", "3", "4", "5", "6", "7", "8", "9"}

WHITESPACE == {" ", "\t", "\n"}

\* str.startswith
startswith(s, prefix) ==
    /\ Len(prefix) <= Len(s)
    /\ SubSeq(s, 1, Len(prefix)) = prefix

\* str.replace(old, new) for a non-empty old: every non-overlapping
\* occurrence, scanning from the left.
RECURSIVE replace(_, _, _)
replace(s, old, new) ==
    IF s = <<>> THEN <<>>
    ELSE IF startswith(s, old)
         THEN new \o replace(SubSeq(s, Len(old) + 1, Len(s)), old, new)
         ELSE <<s[1]>> \o replace(Tail(s), old, new)

\* str.strip
RECURSIVE lstrip(_)
lstrip(s) ==
    IF s # <<>> /\ s[1] \in WHITESPACE THEN lstrip(Tail(s)) ELSE s

RECURSIVE rstrip(_)
rstrip(s) ==
    IF s # <<>> /\ s[Len(s)] \in WHITESPACE
    THEN rstrip(SubSeq(s, 1, Len(s) - 1)) ELSE s

strip(s) == rstrip(lstrip(s))

\* str.lower
lower(s) ==
    [i \in 1..Len(s) |->
        IF s[i] \in UPPERCASE
        THEN CODEPOINTS[ord(s[i]) + 27]
        ELSE s[i]]

\* str.__lt__: lexicographic by code point.
RECURSIVE str_lt(_, _)
str_lt(s, t) ==
    IF t = <<>> THEN FALSE
    ELSE IF s = <<>> THEN TRUE
    ELSE IF s[1] = t[1] THEN str_lt(Tail(s), Tail(t))
    ELSE ord(s[1]) < ord(t[1])

\* sorted(list of str)
RECURSIVE sorted(_)
sorted(l) ==
    IF l = <<>> THEN <<>>
    ELSE LET m == CHOOSE i \in 1..Len(l) :
                      \A j \in 1..Len(l) : ~ str_lt(l[j], l[i])
             rest == [j \in 1..(Len(l) - 1) |-> IF j < m THEN l[j] ELSE l[j + 1]]
         IN  <<l[m]>> \o sorted(rest)

(***************************************************************************)
(* Module constants.                                                       *)
(***************************************************************************)

\* class ETSCustomAddressType
ONOFF == <<>>
FEEDBACK_ONOFF == <<"f", "e", "e", "d", "b", "a", "c", "k">>
DIMVALUE == <<"d", "i", "m", "v", "a", "l", "u", "e">>
FEEDBACK_DIMVALUE == FEEDBACK_ONOFF \o <<" ">> \o DIMVALUE
DIMMER_PUSH == <<"d", "i", "m", "m", "e", "r">>

\* class KNXHAProp
ADDRESS ==
    <<"a", "d", "d", "r", "e", "s", "s">>
STATE_ADDRESS ==
    <<"s", "t", "a", "t", "e", "_", "a", "d", "d", "r", "e", "s", "s">>
BRIGHTNESS_ADDRESS ==
    <<"b", "r", "i", "g", "h", "t", "n", "e", "s", "s", "_", "a", "d", "d", "r", "e", "s", "s">>
BRIGHTNAESS_STATE_ADDRESS ==
    <<"b", "r", "i", "g", "h", "t", "n", "e", "s", "s", "_", "s", "t", "a", "t", "e", "_", "a", "d", "d", "r", "e", "s", "s">>

ETS_HA_MAP(type) ==
    CASE type = ONOFF -> ADDRESS
      [] type = FEEDBACK_ONOFF -> STATE_ADDRESS
      [] type = DIMVALUE -> BRIGHTNESS_ADDRESS
      [] type = FEEDBACK_DIMVALUE -> BRIGHTNAESS_STATE_ADDRESS
      [] OTHER -> None

(***************************************************************************)
(* KNX_ADDRESS_RE: digits, two optional groups of a slash and digits, one  *)
(* space, then the rest of the line; applied with re.match.  After the     *)
(* leading digits the next character must be a slash or a space, so the    *)
(* greedy choice at each group is the only one that can succeed:           *)
(* backtracking never yields another match.  The dot matches no newline.   *)
(***************************************************************************)

\* Length of the longest run of digits of s starting at position i (\d+).
RECURSIVE digit_run(_, _)
digit_run(s, i) ==
    IF i <= Len(s) /\ s[i] \in DIGITS THEN 1 + digit_run(s, i + 1) ELSE 0

\* (\/\d+)? at position i: the text matched, or None.
slash_group(s, i) ==
    IF i <= Len(s) /\ s[i] = "/" /\ digit_run(s, i + 1) > 0
    THEN SubSeq(s, i, i + digit_run(s, i + 1))
    ELSE None

group_len(g) == IF g = None THEN 0 ELSE Len(g)

\* KNX_ADDRESS_RE.match(l): None, or the four groups (group(i) is item i).
KNX_ADDRESS_RE(l) ==
    LET n1 == digit_run(l, 1)
        g2 == slash_group(l, n1 + 1)
        p2 == n1 + 1 + group_len(g2)
        g3 == slash_group(l, p2)
        p3 == p2 + group_len(g3)
        g4 == SubSeq(l, p3 + 1, Len(l))
    IN  IF /\ n1 > 0
           /\ p3 <= Len(l)
           /\ l[p3] = " "
           /\ \A i \in 1..Len(g4) : g4[i] # "\n"
        THEN <<SubSeq(l, 1, n1), g2, g3, g4>>
        ELSE None

(***************************************************************************)
(* class KNXHeler                                                          *)
(***************************************************************************)

\* check_light without the test of the brightness pair.
check_light_required_only(device) ==
    /\ ADDRESS \in DOMAIN device
    /\ STATE_ADDRESS \in DOMAIN device

\* KNXHeler.check_light: "key in device" is membership in the record's keys.
check_light(device) ==
    /\ ADDRESS \in DOMAIN device
    /\ STATE_ADDRESS \in DOMAIN device
    /\ ~ ((BRIGHTNESS_ADDRESS \in DOMAIN device)
            # (BRIGHTNAESS_STATE_ADDRESS \in DOMAIN device))

\* should_ignore that ignores nothing.
should_ignore_never(device_name) == FALSE

\* KNXHeler.should_ignore
should_ignore(device_name) == startswith(device_name, DIMMER_PUSH)

\* The inner _parse of parse_name: None, or <<rest, property>>.
parse_prefix(s, type) ==
    IF startswith(s, type)
    THEN <<strip(replace(s, type, <<>>)), ETS_HA_MAP(type)>>
    ELSE None

\* parse_name testing the feedback prefix before the feedback dimvalue one.
parse_name_feedback_first(s) ==
    LET t1 == parse_prefix(s, FEEDBACK_ONOFF)
        t2 == IF t1 = None THEN parse_prefix(s, FEEDBACK_DIMVALUE) ELSE t1
        t3 == IF t2 = None THEN parse_prefix(s, DIMVALUE) ELSE t2
        tup == IF t3 = None THEN <<s, ETS_HA_MAP(ONOFF)>> ELSE t3
    IN  <<replace(strip(lower(tup[1])), <<" ">>, <<"_">>), tup[2]>>

\* KNXHeler.parse_name: <<device name, property>>.
parse_name(s) ==
    LET t1 == parse_prefix(s, FEEDBACK_DIMVALUE)
        t2 == IF t1 = None THEN parse_prefix(s, FEEDBACK_ONOFF) ELSE t1
        t3 == IF t2 = None THEN parse_prefix(s, DIMVALUE) ELSE t2
        tup == IF t3 = None THEN <<s, ETS_HA_MAP(ONOFF)>> ELSE t3
    IN  <<replace(strip(lower(tup[1])), <<" ">>, <<"_">>), tup[2]>>

(***************************************************************************)
(* dict, as the sequence of its items in insertion order.                  *)
(***************************************************************************)

dict_keys(d) == [i \in 1..Len(d) |-> d[i].key]

dict_values(d) == [i \in 1..Len(d) |-> d[i].value]

dict_contains(d, k) == \E i \in 1..Len(d) : d[i].key = k

dict_getitem(d, k) == d[CHOOSE i \in 1..Len(d) : d[i].key = k].value

dict_setitem(d, k, v) ==
    IF dict_contains(d, k)
    THEN [i \in 1..Len(d) |-> IF d[i].key = k THEN [key |-> k, value |-> v] ELSE d[i]]
    ELSE Append(d, [key |-> k, value |-> v])

dict_delitem(d, k) ==
    LET keep(item) == item.key # k IN SelectSeq(d, keep)

(***************************************************************************)
(* class KNXProject, as operators on the value of self.devices.            *)
(***************************************************************************)

NAME == <<"n", "a", "m", "e">>

\* _parse_line up to full_address: None when the line is reported and
\* dropped, else <<device_name, device_prop, full_address>>.
classify(l) ==
    LET s == KNX_ADDRESS_RE(l)
        address_main == s[1]
        address_middle == IF s[2] # None THEN replace(s[2], <<"/">>, <<>>) ELSE None
        address_subgroup == IF s[3] # None THEN replace(s[3], <<"/">>, <<>>) ELSE None
        name == s[4]
        parsed == parse_name(name)
    IN  IF s = None THEN None
        ELSE IF should_ignore(name) THEN None
        ELSE IF address_middle = None THEN None
        ELSE IF address_subgroup = None THEN None
        ELSE IF parsed[2] = None THEN None
        ELSE <<parsed[1], parsed[2],
               address_main \o <<"/">> \o address_middle \o <<"/">> \o address_subgroup>>

\* aggregate that keeps the first value of a property.
aggregate_keep_first(devices, device_name, device_prop, full_address) ==
    LET created == IF dict_contains(devices, device_name)
                   THEN devices
                   ELSE dict_setitem(devices, device_name, NAME :> device_name)
        device == dict_getitem(created, device_name)
    IN  dict_setitem(created, device_name, device @@ (device_prop :> full_address))

\* aggregate that starts the record afresh at every line.
aggregate_reset(devices, device_name, device_prop, full_address) ==
    dict_setitem(devices, device_name,
                 (device_prop :> full_address) @@ (NAME :> device_name))

\* aggregate that names a new record by the address of its first line.
aggregate_named_by_address(devices, device_name, device_prop, full_address) ==
    LET created == IF dict_contains(devices, device_name)
                   THEN devices
                   ELSE dict_setitem(devices, device_name, NAME :> full_address)
        device == dict_getitem(created, device_name)
    IN  dict_setitem(created, device_name, (device_prop :> full_address) @@ device)

\* The end of _parse_line: look the record up or create it, set the property.
aggregate(devices, device_name, device_prop, full_address) ==
    LET created == IF dict_contains(devices, device_name)
                   THEN devices
                   ELSE dict_setitem(devices, device_name, NAME :> device_name)
        device == dict_getitem(created, device_name)
    IN  dict_setitem(created, device_name, (device_prop :> full_address) @@ device)

\* KNXProject._parse_line
parse_line(devices, l) ==
    LET t == classify(l)
    IN  IF t = None THEN devices ELSE aggregate(devices, t[1], t[2], t[3])

\* KNXProject.remove_invalid_devices: the list of invalid records.
invalid_devices(devices) ==
    LET bad(d) == ~ check_light(d) IN SelectSeq(dict_values(devices), bad)

\* The deleting loop of remove_invalid_devices; del raises KeyError for a
\* missing key and the loop ends there.
RECURSIVE delete_all(_, _)
delete_all(devices, invalid) ==
    IF invalid = <<>> THEN [devices |-> devices, raised |-> None]
    ELSE IF ~ dict_contains(devices, Head(invalid)[NAME])
         THEN [devices |-> devices, raised |-> <<"KeyError">>]
         ELSE delete_all(dict_delitem(devices, Head(invalid)[NAME]), Tail(invalid))

\* The loop body pruning after every line.
load_line_pruning(devices, l) ==
    LET d == IF strip(l) # <<>> THEN parse_line(devices, strip(l)) ELSE devices
    IN  delete_all(d, invalid_devices(d)).devices

\* The body of the loop of load_from_ets.
load_line(devices, l) ==
    IF strip(l) # <<>> THEN parse_line(devices, strip(l)) ELSE devices

\* KNXProject.check: reduce without an initial value raises TypeError on an
\* empty list.
RECURSIVE reduce_and(_, _)
reduce_and(c, l) ==
    IF l = <<>> THEN c ELSE reduce_and(c /\ Head(l), Tail(l))

check(devices) ==
    LET l == [i \in 1..Len(devices) |-> check_light(dict_values(devices)[i])]
    IN  IF l = <<>>
        THEN [value |-> None, raised |-> <<"TypeError">>]
        ELSE [value |-> reduce_and(Head(l), Tail(l)), raised |-> None]

\* to_yaml listing the records in the order of the mapping.
to_yaml_unsorted(devices, devices_type, root) ==
    LET d == devices_type :> dict_values(devices)
    IN  IF root # None THEN root :> d ELSE d

\* KNXProject.to_yaml: the document handed to yaml.dump.
to_yaml(devices, devices_type, root) ==
    LET device_names == sorted(dict_keys(devices))
        d == devices_type :>
                 [i \in 1..Len(device_names) |-> dict_getitem(devices, device_names[i])]
    IN  IF root # None THEN root :> d ELSE d

(***************************************************************************)
(* The input: raw lines as readlines yields them.                          *)
(***************************************************************************)

\* '1/2/3 K\n'
LINE_ONOFF ==
    <<"1", "/", "2", "/", "3", " ", "K", "\n">>

\* '1/2/4 feedback K\n'
LINE_FEEDBACK ==
    <<"1", "/", "2", "/", "4", " ", "f", "e", "e", "d", "b", "a", "c", "k", " ", "K", "\n">>

\* '1/2/5 dimvalue K\n'
LINE_DIMVALUE ==
    <<"1", "/", "2", "/", "5", " ", "d", "i", "m", "v", "a", "l", "u", "e", " ", "K", "\n">>

\* '1/2/6 feedback dimvalue K\n'
LINE_FEEDBACK_DIMVALUE ==
    <<"1", "/", "2", "/", "6", " ", "f", "e", "e", "d", "b", "a", "c", "k", " ", "d", "i", "m", "v", "a", "l", "u", "e", " ", "K", "\n">>

\* '  1/2/7 b\n'
LINE_ONOFF_B ==
    <<" ", " ", "1", "/", "2", "/", "7", " ", "b", "\n">>

\* '1/2/8 feedback B'
LINE_FEEDBACK_B ==
    <<"1", "/", "2", "/", "8", " ", "f", "e", "e", "d", "b", "a", "c", "k", " ", "B">>

\* '1/2/9 feedback k feedback\n'
LINE_FEEDBACK_TWICE ==
    <<"1", "/", "2", "/", "9", " ", "f", "e", "e", "d", "b", "a", "c", "k", " ", "k", " ", "f", "e", "e", "d", "b", "a", "c", "k", "\n">>

\* '1/2/3 dimmer K\n'
LINE_PUSH ==
    <<"1", "/", "2", "/", "3", " ", "d", "i", "m", "m", "e", "r", " ", "K", "\n">>

\* '1/2 M\n'
LINE_MIDDLE ==
    <<"1", "/", "2", " ", "M", "\n">>

\* '1 M\n'
LINE_MAIN ==
    <<"1", " ", "M", "\n">>

\* 'no 1/2/3\n'
LINE_MALFORMED ==
    <<"n", "o", " ", "1", "/", "2", "/", "3", "\n">>

LinePool ==
    {LINE_ONOFF,
     LINE_FEEDBACK,
     LINE_DIMVALUE,
     LINE_FEEDBACK_DIMVALUE,
     LINE_ONOFF_B,
     LINE_FEEDBACK_B,
     LINE_FEEDBACK_TWICE,
     LINE_PUSH,
     LINE_MIDDLE,
     LINE_MAIN,
     LINE_MALFORMED}

\* The number of lines of the input file is at most MaxLines.
MaxLines == 4

LIGHT == <<"l", "i", "g", "h", "t">>

KNX == <<"k", "n", "x">>

(***************************************************************************)
(* The state: the project under construction by load_from_ets, then used   *)
(* by its caller.                                                          *)
(***************************************************************************)
VARIABLES
    devices,     \* self.devices
    lines,       \* the lines of the file consumed so far
    pc,          \* "parsing" in the loop of load_from_ets, "loaded" after it,
                 \* "failed" when it raised
    op,          \* the last operation run
    ret,         \* what it returned (value) or raised
    aggregated,  \* self.devices as remove_invalid_devices found it
    prunes,      \* the number of calls of remove_invalid_devices
    targets      \* for each consumed line, what _parse_line derived from it:
                 \* None, or <<device_name, device_prop, full_address>>

vars == <<devices, lines, pc, op, ret, aggregated, prunes, targets>>

\* What load_from_ets derives from a raw line: nothing from a blank one.
Triple(l) == IF strip(l) = <<>> THEN None ELSE classify(strip(l))

returned(v) == [value |-> v, raised |-> None]

\* KNXProject(): an empty mapping; load_from_ets is about to read the lines.
Init ==
    /\ devices = <<>>
    /\ lines = <<>>
    /\ pc = "parsing"
    /\ op = "__init__"
    /\ ret = returned(None)
    /\ aggregated = <<>>
    /\ prunes = 0
    /\ targets = <<>>

\* One turn of the loop of load_from_ets on the next line of the file, a
\* line of pool.
ReadFrom(pool) ==
    /\ pc = "parsing"
    /\ Len(lines) < MaxLines
    /\ \E l \in pool :
        /\ lines' = Append(lines, l)
        /\ devices' = load_line(devices, l)
        /\ targets' = Append(targets, Triple(l))
    /\ op' = "_parse_line"
    /\ ret' = returned(None)
    /\ UNCHANGED <<pc, aggregated, prunes>>

ReadLine == ReadFrom(LinePool)

\* The end of the file: load_from_ets calls remove_invalid_devices and
\* returns the project.
RemoveInvalid ==
    /\ pc = "parsing"
    /\ LET invalid == invalid_devices(devices)
           r == delete_all(devices, invalid)
       IN  /\ devices' = r.devices
           /\ ret' = [value |-> invalid, raised |-> r.raised]
           /\ pc' = IF r.raised = None THEN "loaded" ELSE "failed"
    /\ aggregated' = devices
    /\ prunes' = prunes + 1
    /\ op' = "remove_invalid_devices"
    /\ UNCHANGED <<lines, targets>>

\* p.to_yaml(devices_type="light"), with or without a root.
ToYaml ==
    /\ pc = "loaded"
    /\ \E root \in {None, KNX} :
        ret' = returned(to_yaml(devices, LIGHT, root))
    /\ op' = "to_yaml"
    /\ UNCHANGED <<devices, lines, pc, aggregated, prunes, targets>>

\* check() on a project its caller holds: a new KNXProject() or the one
\* load_from_ets returned.
Check ==
    /\ pc = "loaded" \/ lines = <<>>
    /\ ret' = check(devices)
    /\ op' = "check"
    /\ UNCHANGED <<devices, lines, pc, aggregated, prunes, targets>>

Next ==
    \/ ReadLine
    \/ RemoveInvalid
    \/ ToYaml
    \/ Check

Spec == Init /\ [][Next]_vars

\* Loads of files of leaf lines that target two devices, two properties of
\* one device, and one property twice.
ReorderPool ==
    {LINE_ONOFF, LINE_FEEDBACK, LINE_FEEDBACK_TWICE, LINE_DIMVALUE, LINE_ONOFF_B}

ReadLeafLine == ReadFrom(ReorderPool)

NextReorder ==
    \/ ReadLeafLine
    \/ RemoveInvalid

SpecReorder == Init /\ [][NextReorder]_vars

(***************************************************************************)
(* Vocabulary of the properties, stated apart from the code's operators.   *)
(***************************************************************************)

PROPS == {ADDRESS, STATE_ADDRESS, BRIGHTNESS_ADDRESS, BRIGHTNAESS_STATE_ADDRESS}

KeySet(d) == {d[i].key : i \in 1..Len(d)}

\* A dict as a mapping, insertion order forgotten (dict equality).
AsMap(d) == [k \in KeySet(d) |-> dict_getitem(d, k)]

\* Property q of record k, None when either is absent.
PropOf(d, k, q) ==
    LET at == {i \in 1..Len(d) : d[i].key = k}
        rec == d[CHOOSE i \in at : TRUE].value
    IN  IF at # {} /\ q \in DOMAIN rec THEN rec[q] ELSE None

\* The validity rule of a device record.
Valid(rec) ==
    /\ ADDRESS \in DOMAIN rec
    /\ STATE_ADDRESS \in DOMAIN rec
    /\ (BRIGHTNESS_ADDRESS \in DOMAIN rec
            <=> BRIGHTNAESS_STATE_ADDRESS \in DOMAIN rec)

IsDigits(s) == s # <<>> /\ \A i \in 1..Len(s) : s[i] \in DIGITS

Positions(t, c) == {i \in 1..Len(t) : t[i] = c}

Min(S) == CHOOSE x \in S : \A y \in S : x <= y

\* The text before the first space of a trimmed line, and the text after it.
AddressPart(t) ==
    IF Positions(t, " ") = {} THEN t ELSE SubSeq(t, 1, Min(Positions(t, " ")) - 1)

LabelPart(t) ==
    IF Positions(t, " ") = {} THEN None
    ELSE SubSeq(t, Min(Positions(t, " ")) + 1, Len(t))

\* A well-formed leaf address: three runs of digits separated by slashes,
\* a space, a label.
IsLeaf(t) ==
    LET a == AddressPart(t)
        sl == Positions(a, "/")
    IN  /\ LabelPart(t) # None
        /\ Cardinality(sl) = 2
        /\ \E i \in sl : \E j \in sl :
            /\ i < j
            /\ IsDigits(SubSeq(a, 1, i - 1))
            /\ IsDigits(SubSeq(a, i + 1, j - 1))
            /\ IsDigits(SubSeq(a, j + 1, Len(a)))

\* The lines that contribute to a device: the leaves that are no
\* push-button.
DeviceLines ==
    {l \in LinePool :
        IsLeaf(strip(l)) /\ ~ startswith(LabelPart(strip(l)), DIMMER_PUSH)}

IsDeviceLine(l) == l \in DeviceLines

\* The label and the address of each of them.
LabelOf == [l \in DeviceLines |-> LabelPart(strip(l))]

AddressOf == [l \in DeviceLines |-> AddressPart(strip(l))]

\* The role prefix of a label: the first that matches, in the fixed order.
RolePrefix(label) ==
    IF startswith(label, FEEDBACK_DIMVALUE) THEN FEEDBACK_DIMVALUE
    ELSE IF startswith(label, FEEDBACK_ONOFF) THEN FEEDBACK_ONOFF
    ELSE IF startswith(label, DIMVALUE) THEN DIMVALUE
    ELSE ONOFF

ExpectedProp(label) ==
    CASE RolePrefix(label) = FEEDBACK_DIMVALUE -> BRIGHTNAESS_STATE_ADDRESS
      [] RolePrefix(label) = FEEDBACK_ONOFF -> STATE_ADDRESS
      [] RolePrefix(label) = DIMVALUE -> BRIGHTNESS_ADDRESS
      [] OTHER -> ADDRESS

\* The label without its role prefix, trimmed and lower-cased.
AfterPrefix(label) ==
    lower(strip(SubSeq(label, Len(RolePrefix(label)) + 1, Len(label))))

ExpectedName(label) ==
    [i \in 1..Len(AfterPrefix(label)) |->
        IF AfterPrefix(label)[i] = " " THEN "_" ELSE AfterPrefix(label)[i]]

\* A step that consumes one more line of the file.
LineStep == Len(lines') = Len(lines) + 1

LastLine == lines'[Len(lines')]

\* The mapping the lines have built: self.devices until it is pruned.
Built == IF pc = "parsing" THEN devices ELSE aggregated

(***************************************************************************)
(* The claims.                                                             *)
(***************************************************************************)

\* C1: once load_from_ets has returned, the mapping holds exactly the
\* aggregated records that satisfy the validity rule, each as it was
\* aggregated, and remove_invalid_devices returned exactly the aggregated
\* records that violate it.
C1_PrunedExactly ==
    /\ pc # "failed"
    /\ pc = "loaded" =>
        /\ Len(devices) = Cardinality(KeySet(devices))
        /\ KeySet(devices) = {k \in KeySet(aggregated) : Valid(AsMap(aggregated)[k])}
        /\ \A k \in KeySet(devices) : AsMap(devices)[k] = AsMap(aggregated)[k]
        /\ op = "remove_invalid_devices" =>
            /\ ret.raised = None
            /\ {ret.value[i] : i \in 1..Len(ret.value)}
                 = {AsMap(aggregated)[k] : k \in {n \in KeySet(aggregated) :
                                                     ~ Valid(AsMap(aggregated)[n])}}
            /\ Len(ret.value) + Len(devices) = Len(aggregated)

\* A load that kept a valid device and dropped an invalid one.
C1_Witness ==
    /\ pc = "loaded"
    /\ op = "remove_invalid_devices"
    /\ devices # <<>>
    /\ ret.value # <<>>

\* C9: every key of the mapping maps to a record whose name is that key, so
\* remove_invalid_devices, which deletes by the record's name, never raises
\* KeyError and deletes exactly the records it judged invalid.
C9_NameIsKey ==
    /\ \A i \in 1..Len(devices) :
        /\ NAME \in DOMAIN devices[i].value
        /\ devices[i].value[NAME] = devices[i].key
    /\ \A i \in 1..Len(devices) : \A j \in 1..Len(devices) :
        devices[i].key = devices[j].key => i = j
    /\ ret.raised # <<"KeyError">>
    /\ op = "remove_invalid_devices" =>
        /\ KeySet(devices)
             = KeySet(aggregated) \ {ret.value[i][NAME] : i \in 1..Len(ret.value)}
        /\ \A i \in 1..Len(ret.value) : ~ check_light(ret.value[i])

\* Pruning deleted two records by their names.
C9_Witness ==
    /\ op = "remove_invalid_devices"
    /\ Len(aggregated) = 2
    /\ Len(ret.value) = 2
    /\ devices = <<>>

\* C10: check returns a boolean in every project state, true iff every
\* device of the mapping satisfies the validity rule, also when the mapping
\* is empty.
C10_CheckIsTotal ==
    op = "check" =>
        /\ ret.raised = None
        /\ ret.value = (\A i \in 1..Len(devices) : Valid(devices[i].value))

\* The record list of the document to_yaml built.
YamlList ==
    IF LIGHT \in DOMAIN ret.value THEN ret.value[LIGHT] ELSE ret.value[KNX][LIGHT]

\* Lexicographic order by code point, by the first position that differs.
NameLess(s, t) ==
    \E k \in 1..(Len(t)) :
        /\ k <= Len(s) + 1
        /\ SubSeq(s, 1, k - 1) = SubSeq(t, 1, k - 1)
        /\ (k = Len(s) + 1 \/ ord(s[k]) < ord(t[k]))

C8_Sorted ==
    op = "to_yaml" =>
        /\ ret.raised = None
        /\ Len(YamlList) = Len(devices)
        /\ {YamlList[i][NAME] : i \in 1..Len(YamlList)} = KeySet(devices)
        /\ \A i \in 1..Len(YamlList) : YamlList[i] = AsMap(devices)[YamlList[i][NAME]]
        /\ \A i \in 1..Len(YamlList) : \A j \in 1..Len(YamlList) :
            i < j => NameLess(YamlList[i][NAME], YamlList[j][NAME])

\* C8: the record list of to_yaml holds each device of the mapping exactly
\* once, as the mapping has it, strictly ascending by name, whatever the
\* order the lines inserted the devices in; to_yaml leaves the mapping as
\* it was.
C8_YamlSortedAndPure ==
    /\ []C8_Sorted
    /\ [][op' = "to_yaml" => devices' = devices]_vars

\* to_yaml under a root on a mapping whose insertion order is descending.
C8_Witness ==
    /\ op = "to_yaml"
    /\ KNX \in DOMAIN ret.value
    /\ Len(devices) = 2
    /\ NameLess(devices[2].key, devices[1].key)

\* The indices of the consumed lines that target property p of device n.
Writers(n, p) ==
    {i \in 1..Len(targets) :
        /\ targets[i] # None
        /\ targets[i][1] = n
        /\ targets[i][2] = p}

Max(S) == CHOOSE x \in S : \A y \in S : x >= y

TargetNames == {targets[i][1] : i \in {j \in 1..Len(targets) : targets[j] # None}}

\* Consuming a classified line sets its property of its record, creating
\* the record with only its name, and changes nothing else.
C2_Step ==
    (LineStep /\ targets'[Len(targets')] # None) =>
        LET n == targets'[Len(targets')][1]
            p == targets'[Len(targets')][2]
            a == targets'[Len(targets')][3]
            old == AsMap(devices)
            new == AsMap(devices')
        IN  /\ DOMAIN new = DOMAIN old \cup {n}
            /\ DOMAIN new[n]
                 = (IF n \in DOMAIN old THEN DOMAIN old[n] ELSE {NAME}) \cup {p}
            /\ new[n][p] = a
            /\ \A q \in DOMAIN new[n] \ {p} :
                new[n][q] = (IF n \in DOMAIN old THEN old[n][q] ELSE n)
            /\ \A k \in DOMAIN old \ {n} : new[k] = old[k]

\* Each property of each record is the address of the last line that
\* targeted it, and is absent when no line did.
C2_LastWins ==
    /\ KeySet(Built) = TargetNames
    /\ \A n \in KeySet(Built) : \A p \in PROPS :
        PropOf(Built, n, p)
            = (IF Writers(n, p) = {} THEN None
               ELSE targets[Max(Writers(n, p))][3])

\* C2: aggregating a classified line (n, p, a) sets property p of record n
\* to a, creating the record with only its name or overwriting the earlier
\* value, and leaves every other property and record unchanged; so each
\* (device, property) holds the address of the last line that targeted it.
C2_AggregateFrame ==
    /\ [][C2_Step]_vars
    /\ []C2_LastWins

\* A property was overwritten by a later line while the record's other
\* property and another record stayed.
C2_Witness ==
    /\ pc = "parsing"
    /\ Len(devices) = 2
    /\ \E n \in KeySet(devices) : \E p \in PROPS :
        /\ Cardinality(Writers(n, p)) = 2
        /\ \E i \in Writers(n, p) : targets[i][3] # PropOf(devices, n, p)
        /\ Cardinality(DOMAIN AsMap(devices)[n]) = 3

\* C3: a line changes the mapping only when it is a well-formed leaf
\* address whose label does not start with the push-button prefix; a
\* malformed line, a header line and a push-button line leave the mapping
\* as it was, raise nothing, and the loop goes on.
C3_OnlyLeafLinesChange ==
    [][(LineStep /\ ~ IsDeviceLine(LastLine)) =>
            /\ devices' = devices
            /\ ret'.raised = None
            /\ pc' = "parsing"]_vars

\* A malformed line, a main-group header and a push-button line were
\* skipped and the leaf line after them created its device.
C3_Witness ==
    /\ lines = <<LINE_MALFORMED, LINE_MAIN, LINE_PUSH, LINE_ONOFF>>
    /\ Len(devices) = 1

\* C4: the device name of a non-ignored leaf label is the label without the
\* role prefix at its start, trimmed, lower-cased, spaces replaced by
\* underscores; labels equal after the prefix up to case share a device,
\* labels that differ after the prefix do not, also when the prefix word
\* occurs again later in the label.
C4_NameFromPrefixOnly ==
    LET dev == {i \in 1..Len(lines) : IsDeviceLine(lines[i])}
        label(i) == LabelOf[lines[i]]
    IN  /\ KeySet(Built) = {ExpectedName(label(i)) : i \in dev}
        /\ \A i \in dev : \A j \in dev :
            (AfterPrefix(label(i)) = AfterPrefix(label(j)))
                <=> (targets[i][1] = targets[j][1])

\* C5: the property a non-ignored leaf label sets is decided by the first
\* matching prefix in the order feedback dimvalue, feedback, dimvalue,
\* empty; the line sets that property to its address and no other property
\* of any record changes.
C5_PrefixPrecedence ==
    [][(LineStep /\ IsDeviceLine(LastLine)) =>
            LET p == ExpectedProp(LabelOf[LastLine])
                a == AddressOf[LastLine]
                keys == KeySet(devices) \cup KeySet(devices')
            IN  /\ \E k \in KeySet(devices') : PropOf(devices', k, p) = a
                /\ \A k \in keys : \A q \in PROPS \ {p} :
                    PropOf(devices', k, q) = PropOf(devices, k, q)]_vars

\* A feedback dimvalue line set brightness_state_address and not
\* state_address.
C5_Witness ==
    /\ pc = "parsing"
    /\ \E i \in 1..Len(lines) : lines[i] = LINE_FEEDBACK_DIMVALUE
    /\ \E k \in KeySet(devices) :
        /\ PropOf(devices, k, BRIGHTNAESS_STATE_ADDRESS) # None
        /\ PropOf(devices, k, STATE_ADDRESS) = None

\* The records the consumed lines complete: valid by their last writers.
CompletedNames ==
    {n \in TargetNames :
        /\ Writers(n, ADDRESS) # {}
        /\ Writers(n, STATE_ADDRESS) # {}
        /\ (Writers(n, BRIGHTNESS_ADDRESS) # {}
                <=> Writers(n, BRIGHTNAESS_STATE_ADDRESS) # {})}

C7_State ==
    /\ pc = "parsing" => prunes = 0 /\ TargetNames \subseteq KeySet(devices)
    /\ pc = "loaded" => prunes = 1 /\ CompletedNames \subseteq KeySet(devices)

C7_Step ==
    /\ prunes' # prunes => pc = "parsing" /\ pc' # "parsing" /\ prunes' = prunes + 1
    /\ pc # "parsing" => lines' = lines
    /\ ~ (KeySet(devices) \subseteq KeySet(devices')) => prunes' = prunes + 1

\* C7: pruning runs once per load, after the last line; no record is
\* removed while lines are consumed, so a device that is invalid at some
\* point and completed by a later line is in the final mapping.
C7_PruneOnceAtEnd ==
    /\ []C7_State
    /\ [][C7_Step]_vars

\* A device that had only its address when another line was consumed, and
\* got its feedback line last, is in the final mapping.
C7_Witness ==
    /\ pc = "loaded"
    /\ Len(lines) = 3
    /\ lines[1] = LINE_ONOFF
    /\ lines[3] = LINE_FEEDBACK
    /\ KeySet(devices) = {<<"k">>}

\* The mapping load_from_ets builds from the triples ts, in their order.
RECURSIVE Replay(_, _)
Replay(d, ts) ==
    IF ts = <<>> THEN d
    ELSE Replay(IF Head(ts) = None THEN d
                ELSE aggregate(d, Head(ts)[1], Head(ts)[2], Head(ts)[3]),
                Tail(ts))

Pruned(d) == delete_all(d, invalid_devices(d)).devices

TargetPairs == {<<targets[i][1], targets[i][2]>> :
                    i \in {j \in 1..Len(targets) : targets[j] # None}}

\* For the lines taken in the order q, the last line that targets each
\* (device, property).
LastWriterIn(q) ==
    [tp \in TargetPairs |->
        lines[q[Max({i \in 1..Len(lines) :
                        /\ targets[q[i]] # None
                        /\ <<targets[q[i]][1], targets[q[i]][2]>> = tp})]]]

Identity == [i \in 1..Len(lines) |-> i]

SameLastWriters(q) == LastWriterIn(q) = LastWriterIn(Identity)

\* C6: any other ordering of the consumed lines in which the last line
\* targeting each (device, property) is the same line builds the same
\* mapping, and so the same pruned mapping.
C6_ReorderingCommutes ==
    op = "remove_invalid_devices" =>
        \A q \in Permutations(1..Len(lines)) :
            SameLastWriters(q) =>
                LET built == Replay(<<>>, [i \in 1..Len(lines) |-> targets[q[i]]])
                IN  /\ AsMap(built) = AsMap(aggregated)
                    /\ AsMap(Pruned(built)) = AsMap(devices)

\* A file in which one property is targeted twice and whose lines have
\* another ordering with the same last writers that inserts the devices
\* in another order.
C6_Witness ==
    /\ op = "remove_invalid_devices"
    /\ Len(aggregated) = 2
    /\ devices # <<>>
    /\ \E tp \in TargetPairs : Cardinality(Writers(tp[1], tp[2])) = 2
    /\ \E q \in Permutations(1..Len(lines)) :
        /\ SameLastWriters(q)
        /\ Replay(<<>>, [i \in 1..Len(lines) |-> targets[q[i]]]) # aggregated

=============================================================================
